---- MODULE Spec2Model ----
(***************************************************************************)
(* A model of the shorturl service: the abbreviation allocator             *)
(* (dao/abbreviator.go), the in-memory backend (dao/memorydb.go and its    *)
(* mutex-protected revision), the SQLite and Mongo backends with their     *)
(* detached hit updates, and the handlers (handlers/handlers.go).          *)
(***************************************************************************)
EXTENDS Integers, Sequences, FiniteSets, Bags, TLC

(***************************************************************************)
(* Bounds of the model.                                                    *)
(***************************************************************************)
\* the clock stops after this many ticks
MaxClock == 2
\* clock ticks per calendar day
TicksPerDay == 2
\* a record is resolved at most this many times by the callers of GetUrl
MaxHits == 2
\* CreateAbbreviation stops looking a record up once it has this many hits
MaxAllocHits == 22
\* keySize is not grown beyond this length
MaxKeySize == 4
\* under concurrent requests CreateAbbreviation stops looking a record up
\* once it has this many hits
MaxServeHits == 3
\* the longest string a test asks RandStrn for
MaxLength == 2

(***************************************************************************)
(* Inputs of the backend calls.                                            *)
(***************************************************************************)
Urls == {"u1", "u2"}
DaoAbvs == {<<"a">>, <<"s">>}
Procs == {1, 2}
\* the abbreviations of the records a test saves before it calls CreateAbbreviation
FixtureAbvs == {<<"a">>, <<"a", "a", "a">>}
\* a networked backend is handed one row id per abbreviation of the driver
MaxRows == Cardinality(DaoAbvs)

(***************************************************************************)
(* Go maps and pointers.  A map is a function on the keys it holds.  A     *)
(* *ShortUrl is named by the (abv, url) pair Save allocated it for: Save   *)
(* overwrites d.abvNdxMap[abv] and d.urlNdxMap[url], the only places an    *)
(* older object of the same pair can be referred from, so at most one      *)
(* object of a pair is live.  The nil pointer is the empty tuple.          *)
(***************************************************************************)
Nil == <<>>

Lookup(m, k) == IF k \in DOMAIN m THEN m[k] ELSE Nil

\* a read of a map[string]int: the zero value when the key is absent
Count(m, k) == IF k \in DOMAIN m THEN m[k] ELSE 0

MapDelete(m, k) == [x \in (DOMAIN m) \ {k} |-> m[x]]

MapPut(m, k, v) == [x \in (DOMAIN m) \cup {k} |-> IF x = k THEN v ELSE m[x]]

Range(m) == {m[k] : k \in DOMAIN m}

\* &su for the ShortUrl that Save(abv, url) allocates
NewPtr(abv, url) == <<abv, url>>

\* garbage collection: cells no index refers to are dropped
Collect(db) ==
    LET live == Range(db.abvNdxMap) \cup Range(db.urlNdxMap)
    IN [db EXCEPT !.heap = [i \in live |-> db.heap[i]]]

\* the zero ShortUrl{}
EmptyShortUrl ==
    [Abbreviation |-> <<>>, Url |-> "", Hits |-> 0, LastAccess |-> 0,
     DailyHits |-> <<>>]

\* Date(): the day of a clock value
Date(t) == t \div TicksPerDay

(***************************************************************************)
(* MemoryDB (dao/memorydb.go).  Each operator takes the database and       *)
(* returns the database after the call and what the call returns.          *)
(***************************************************************************)
CreateMemoryDB == [heap |-> <<>>, urlNdxMap |-> <<>>, abvNdxMap |-> <<>>]

Save(db, abv, url) ==
    LET p == NewPtr(abv, url)
        su == [Abbreviation |-> abv, Url |-> url, Hits |-> 0, LastAccess |-> 0,
               DailyHits |-> <<>>]
    IN [db |-> Collect([heap |-> MapPut(db.heap, p, su),
                        urlNdxMap |-> MapPut(db.urlNdxMap, url, p),
                        abvNdxMap |-> MapPut(db.abvNdxMap, abv, p)]),
        err |-> "nil"]

DeleteAbvOneIndex(db, abv) ==
    IF Lookup(db.abvNdxMap, abv) = Nil
    THEN [db |-> db, err |-> "panic"]
    ELSE [db |-> Collect([db EXCEPT !.abvNdxMap = MapDelete(db.abvNdxMap, abv)]),
          err |-> "nil"]

\* su.Url on a nil su is a nil pointer dereference: the call panics after
\* delete(d.abvNdxMap, abv), which removed nothing
DeleteAbv(db, abv) ==
    LET su == Lookup(db.abvNdxMap, abv)
    IN IF su = Nil
       THEN [db |-> db, err |-> "panic"]
       ELSE [db |-> Collect([db EXCEPT
                        !.abvNdxMap = MapDelete(db.abvNdxMap, abv),
                        !.urlNdxMap = MapDelete(db.urlNdxMap, db.heap[su].Url)]),
             err |-> "nil"]

\* su.Abbreviation on a nil su panics before anything is deleted
DeleteUrl(db, url) ==
    LET su == Lookup(db.urlNdxMap, url)
    IN IF su = Nil
       THEN [db |-> db, err |-> "panic"]
       ELSE [db |-> Collect([db EXCEPT
                        !.abvNdxMap = MapDelete(db.abvNdxMap, db.heap[su].Abbreviation),
                        !.urlNdxMap = MapDelete(db.urlNdxMap, url)]),
             err |-> "nil"]

\* su.Hits++ without su.DailyHits[date]++
GetUrlSkipsDaily(db, abv, t) ==
    LET su == Lookup(db.abvNdxMap, abv)
    IN IF su # Nil /\ db.heap[su].Url # ""
       THEN [db |-> [db EXCEPT !.heap[su].Hits = @ + 1, !.heap[su].LastAccess = t],
             url |-> db.heap[su].Url, err |-> "nil"]
       ELSE [db |-> db, url |-> "", err |-> "nil"]

GetUrl(db, abv, t) ==
    LET su == Lookup(db.abvNdxMap, abv)
    IN IF su # Nil /\ db.heap[su].Url # ""
       THEN LET o == db.heap[su]
                date == Date(t)
            IN [db |-> [db EXCEPT !.heap[su] =
                          [o EXCEPT !.Hits = o.Hits + 1,
                                    !.LastAccess = t,
                                    !.DailyHits = MapPut(o.DailyHits, date,
                                                    Count(o.DailyHits, date) + 1)]],
                url |-> o.Url, err |-> "nil"]
       ELSE [db |-> db, url |-> "", err |-> "nil"]

GetAbv(db, url) ==
    IF Lookup(db.urlNdxMap, url) # Nil
    THEN [abv |-> db.heap[db.urlNdxMap[url]].Abbreviation, err |-> "nil"]
    ELSE [abv |-> <<>>, err |-> "nil"]

GetStatsOrError(db, abv) ==
    IF Lookup(db.abvNdxMap, abv) = Nil
    THEN [stats |-> EmptyShortUrl, err |-> "error"]
    ELSE [stats |-> db.heap[db.abvNdxMap[abv]], err |-> "nil"]

GetStats(db, abv) ==
    IF Lookup(db.abvNdxMap, abv) = Nil
    THEN [stats |-> EmptyShortUrl, err |-> "nil"]
    ELSE [stats |-> db.heap[db.abvNdxMap[abv]], err |-> "nil"]

(***************************************************************************)
(* env.IntOrDefault.  A string is a sequence of characters.                *)
(***************************************************************************)
DigitChars == <<"0", "1", "2", "3", "4", "5", "6", "7", "8", "9">>

IsDigit(c) == \E i \in DOMAIN DigitChars : DigitChars[i] = c

DigitVal(c) == (CHOOSE i \in DOMAIN DigitChars : DigitChars[i] = c) - 1

RECURSIVE DigitsVal(_)
DigitsVal(s) ==
    IF s = <<>> THEN 0
    ELSE 10 * DigitsVal(SubSeq(s, 1, Len(s) - 1)) + DigitVal(s[Len(s)])

\* strconv.Atoi: an optional sign, then one or more decimal digits
Atoi(s) ==
    LET signed == s # <<>> /\ Head(s) \in {"-", "+"}
        body == IF signed THEN Tail(s) ELSE s
    IN IF body = <<>> \/ \E i \in DOMAIN body : ~IsDigit(body[i])
       THEN [val |-> 0, err |-> "error"]
       ELSE [val |-> IF signed /\ Head(s) = "-" THEN 0 - DigitsVal(body)
                     ELSE DigitsVal(body),
             err |-> "nil"]

IntOrDefault(envVal, defaultValue) ==
    IF envVal = <<>>
    THEN defaultValue
    ELSE LET got == Atoi(envVal)
         IN IF got.err # "nil" THEN defaultValue ELSE got.val

(***************************************************************************)
(* The Acceptability Filter.                                               *)
(***************************************************************************)
BadWords == {<<"a", "s", "s">>, <<"d", "a", "m", "n">>}

Contains(s, w) ==
    \E i \in 1..(Len(s) - Len(w) + 1) : SubSeq(s, i, i + Len(w) - 1) = w

AcceptableWord(s) == \A w \in BadWords : ~Contains(s, w)

(***************************************************************************)
(* dao/abbreviator.go: the tests of randString and CreateAbbreviation.     *)
(***************************************************************************)
\* tries > env.IntOrDefault("keygrowretries", 10), after tries = tries + 1
ShouldGrowAtThreshold(tries, keygrowretries) == tries >= IntOrDefault(keygrowretries, 10)

\* the counters never grow keySize
ShouldGrowNever(tries, keygrowretries) == FALSE

ShouldGrow(tries, keygrowretries) == tries > IntOrDefault(keygrowretries, 10)

\* the condition of CreateAbbreviation's loop
CollidesWhenSame(u, url) == u # "" /\ url = u

Collides(u, url) == u # "" /\ url # u

(***************************************************************************)
(* The mutex-protected revision of MemoryDB: the same statements, each     *)
(* method under d.mu, so that a call is one atomic step of its goroutine.  *)
(***************************************************************************)
LockedSave(db, abv, url) == Save(db, abv, url)

LockedGetUrl(db, abv, t) == GetUrl(db, abv, t)

LockedGetAbv(db, url) == GetAbv(db, url)

\* su, ok := d.abvNdxMap[abv]; the deletes run only if ok
LockedDeleteAbv(db, abv) ==
    IF Lookup(db.abvNdxMap, abv) # Nil THEN DeleteAbv(db, abv)
    ELSE [db |-> db, err |-> "nil"]

\* su, ok := d.urlNdxMap[url]; the deletes run only if ok
LockedDeleteUrl(db, url) ==
    IF Lookup(db.urlNdxMap, url) # Nil THEN DeleteUrl(db, url)
    ELSE [db |-> db, err |-> "nil"]

(***************************************************************************)
(* The ShortUrlDao handed to CreateAbbreviation and to the handlers is an  *)
(* interface.  "MemoryDB" and "LockedMemoryDB" are the two in-memory       *)
(* backends; "Unreliable" is a backend whose lookup can also fail the way  *)
(* SQLiteDB.GetUrl does when its query fails: no URL and an error.         *)
(***************************************************************************)
FailedGetUrl(db) == [db |-> db, url |-> "", err |-> "error"]

\* the outcomes dao.GetUrl(abv) can have
DaoGetUrl(kind, db, abv, t) ==
    CASE kind = "MemoryDB" -> {GetUrl(db, abv, t)}
      [] kind = "LockedMemoryDB" -> {LockedGetUrl(db, abv, t)}
      [] kind = "Unreliable" -> {GetUrl(db, abv, t), FailedGetUrl(db)}

DaoGetAbv(kind, db, url) ==
    IF kind = "LockedMemoryDB" THEN LockedGetAbv(db, url) ELSE GetAbv(db, url)

DaoSave(kind, db, abv, url) ==
    IF kind = "LockedMemoryDB" THEN LockedSave(db, abv, url) ELSE Save(db, abv, url)

DaoDeleteAbv(kind, db, abv) ==
    IF kind = "LockedMemoryDB" THEN LockedDeleteAbv(db, abv) ELSE DeleteAbv(db, abv)

(***************************************************************************)
(* The networked backends: SQLiteDB and MongoDB.  The stored records are   *)
(* a table keyed by the row id (short_urls.id, AUTOINCREMENT, never used   *)
(* again; the _id of a Mongo document).  The daily_hits rows of a record   *)
(* are kept with it: the foreign key deletes them with the record.         *)
(***************************************************************************)
CreateNet == [rows |-> <<>>, nextId |-> 1]

\* the ids of the rows WHERE abbreviation = abv
RowsOfAbv(t, abv) == {id \in DOMAIN t.rows : t.rows[id].Abbreviation = abv}

RowsOfUrl(t, url) == {id \in DOMAIN t.rows : t.rows[id].Url = url}

\* the row a query by abbreviation scans, 0 for sql.ErrNoRows
IdOfAbv(t, abv) ==
    IF RowsOfAbv(t, abv) = {} THEN 0 ELSE CHOOSE id \in RowsOfAbv(t, abv) : TRUE

InsertRow(t, abv, url) ==
    [rows |-> MapPut(t.rows, t.nextId,
                     [Abbreviation |-> abv, Url |-> url, Hits |-> 0,
                      LastAccess |-> 0, DailyHits |-> <<>>]),
     nextId |-> t.nextId + 1]

\* SQLiteDB.Save: every outcome of the INSERT.  A row with this abbreviation
\* makes the statement do nothing, and Save fails if that row has another
\* URL; a row with this URL violates UNIQUE(url), which Save swallows.  When
\* both rows exist the code does not fix which of the two SQLite reports.
SQLiteSave(t, abv, url) ==
    LET id == IdOfAbv(t, abv)
    IN IF id = 0 /\ RowsOfUrl(t, url) = {}
       THEN {[net |-> InsertRow(t, abv, url), err |-> "nil"]}
       ELSE {[net |-> t, err |-> IF t.rows[id].Url # url THEN "error" ELSE "nil"] :
                 x \in IF id # 0 THEN {1} ELSE {}}
            \cup {[net |-> t, err |-> "nil"] : x \in IF RowsOfUrl(t, url) # {} THEN {1} ELSE {}}

\* MongoDB.Save: the unique index is on abv only; E11000 is swallowed
MongoSave(t, abv, url) ==
    IF IdOfAbv(t, abv) # 0 THEN {[net |-> t, err |-> "nil"]}
    ELSE {[net |-> InsertRow(t, abv, url), err |-> "nil"]}

\* DELETE FROM short_urls WHERE abbreviation = ?
SQLiteDeleteAbv(t, abv) ==
    [net |-> [t EXCEPT !.rows = [id \in (DOMAIN t.rows) \ RowsOfAbv(t, abv) |-> t.rows[id]]],
     err |-> "nil"]

MongoDeleteAbv(t, abv) == SQLiteDeleteAbv(t, abv)

\* The lookup of SQLiteDB.GetUrl.  queryFails: the query returned an error
\* other than sql.ErrNoRows.  update names the row of the goroutine the call
\* starts (WHERE id = ?), Nil when it starts none.
SQLiteGetUrl(t, abv, queryFails) ==
    LET id == IdOfAbv(t, abv)
    IN IF queryFails THEN [url |-> "", err |-> "error", update |-> Nil]
       ELSE IF id = 0 THEN [url |-> "", err |-> "nil", update |-> Nil]
       ELSE [url |-> t.rows[id].Url, err |-> "nil", update |-> <<"id", id>>]

\* The lookup of MongoDB.GetUrl: any result.Err() returns "", nil.  The
\* goroutine updates by abvKey.
MongoGetUrl(t, abv, queryFails) ==
    LET id == IdOfAbv(t, abv)
    IN IF queryFails \/ id = 0 THEN [url |-> "", err |-> "nil", update |-> Nil]
       ELSE [url |-> t.rows[id].Url, err |-> "nil", update |-> <<"abv", abv>>]

\* the rows a detached update addresses
UpdateTarget(t, update) ==
    IF update[1] = "id" THEN {update[2]} \cap DOMAIN t.rows ELSE RowsOfAbv(t, update[2])

\* What the statements of a detached update can do: hits says the increment
\* of hits and last_access was applied, daily the one of today's daily hits.
\* SQLite runs two statements and each can fail by itself.  Mongo sends one
\* UpdateOne whose document holds the key $inc twice: the server applies
\* both, or the later one only, or the call fails.
UpdateOutcomes(kind) ==
    IF kind = "SQLiteDB" THEN [hits : BOOLEAN, daily : BOOLEAN]
    ELSE {[hits |-> TRUE, daily |-> TRUE], [hits |-> FALSE, daily |-> TRUE],
          [hits |-> FALSE, daily |-> FALSE]}

ApplyUpdate(t, update, o, time) ==
    [t EXCEPT !.rows =
        [id \in DOMAIN t.rows |->
            IF id \notin UpdateTarget(t, update) THEN t.rows[id]
            ELSE LET row == t.rows[id]
                 IN [row EXCEPT
                       !.Hits = IF o.hits THEN @ + 1 ELSE @,
                       !.LastAccess = IF o.hits THEN time ELSE @,
                       !.DailyHits = IF o.daily
                                     THEN MapPut(@, Date(time), Count(@, Date(time)) + 1)
                                     ELSE @]]]

\* GetStats of both backends: the row and its daily hits, or ShortUrl{}
SQLiteGetStats(t, abv) ==
    IF IdOfAbv(t, abv) = 0 THEN [stats |-> EmptyShortUrl, err |-> "nil"]
    ELSE [stats |-> t.rows[IdOfAbv(t, abv)], err |-> "nil"]

NetSave(kind, t, abv, url) ==
    IF kind = "MongoDB" THEN MongoSave(t, abv, url) ELSE SQLiteSave(t, abv, url)

NetGetUrl(kind, t, abv, queryFails) ==
    IF kind = "MongoDB" THEN MongoGetUrl(t, abv, queryFails)
    ELSE SQLiteGetUrl(t, abv, queryFails)

(***************************************************************************)
(* status/status.go: SimpleStatus.  Each method takes the status and the   *)
(* clock and returns the status after the call.                            *)
(***************************************************************************)
OK == 0
Warning == 1
Critical == 2
Unknown == 3

\* time.Now().Format("2006-01-02 15:04:05"): the clock, which counts seconds
currentTimestamp(t) == t

\* the zero SimpleStatus{}
EmptyStatus == [Code |-> OK, Message |-> "", Timestamp |-> 0]

newStatus(st, code, message, t) ==
    [st EXCEPT !.Code = code, !.Message = message, !.Timestamp = currentTimestamp(t)]

Ok(st, message, t) == newStatus(st, OK, message, t)

\* a Warn that keeps the message of the status it replaces
WarnKeepsMessage(st, message, t) == newStatus(st, Warning, st.Message, t)

Warn(st, message, t) == newStatus(st, Warning, message, t)

SimpleStatusCritical(st, message, t) == newStatus(st, Critical, message, t)

SimpleStatusUnknown(st, message, t) == newStatus(st, Unknown, message, t)

NewStatus(t) == SimpleStatusUnknown(EmptyStatus, "initializing", t)

\* Current() stamps the status it returns, and the receiver with it
Current(st, t) == [st EXCEPT !.Timestamp = currentTimestamp(t)]

(***************************************************************************)
(* server.go: the main goroutine.  deferred is the stack of its deferred   *)
(* calls, ran the deferred calls that were executed, handlers the status   *)
(* CreateHandlers was given, by value.                                     *)
(***************************************************************************)
NotStarted ==
    [pc |-> "start", db |-> "none", deferred |-> <<>>, ran |-> <<>>,
     handlers |-> EmptyStatus]

(***************************************************************************)
(* RedisDB.  The keyspace: abv holds the hash of each shorturl:abv: key    *)
(* (fields url, hits, last_access), url the string of each shorturl:url:   *)
(* key, daily the hash of each shorturl:daily: key.  A key that holds      *)
(* nothing does not exist.                                                 *)
(***************************************************************************)
CreateRedisDB == [abv |-> <<>>, url |-> <<>>, daily |-> <<>>]

\* HGetAll: the hash of a key, empty when the key does not exist
HGetAll(hashes, key) == IF key \in DOMAIN hashes THEN hashes[key] ELSE <<>>

\* HGet(ctx, abvKey, "url"): "" stands for the redis.Nil reply
HGetUrl(kv, abv) == IF "url" \in DOMAIN HGetAll(kv.abv, abv) THEN kv.abv[abv]["url"] ELSE ""

\* the pipeline of Save: HSet(abvKey, url, hits 0) and Set(urlKey, abv)
RedisSaveExec(kv, abv, url) ==
    [kv EXCEPT !.abv = MapPut(@, abv, MapPut(MapPut(HGetAll(@, abv), "url", url), "hits", 0)),
               !.url = MapPut(@, url, abv)]

RedisDeleteAbv(kv, abv, fails) ==
    IF ~"url" \in DOMAIN HGetAll(kv.abv, abv) THEN [db |-> kv, err |-> "nil"]
    ELSE IF fails THEN [db |-> kv, err |-> "error"]
    ELSE [db |-> [abv |-> MapDelete(kv.abv, abv),
                  url |-> MapDelete(kv.url, HGetUrl(kv, abv)),
                  daily |-> MapDelete(kv.daily, abv)],
          err |-> "nil"]

\* the lookup of RedisDB.GetUrl; update names the key of the goroutine the
\* call starts
RedisGetUrl(kv, abv, queryFails) ==
    IF ~"url" \in DOMAIN HGetAll(kv.abv, abv) THEN [url |-> "", err |-> "nil", update |-> Nil]
    ELSE IF queryFails THEN [url |-> "", err |-> "error", update |-> Nil]
    ELSE [url |-> HGetUrl(kv, abv), err |-> "nil", update |-> <<"abv", abv>>]

\* the pipeline of the update goroutine: HIncrBy and HSet create the key and
\* the field they do not find
RedisUpdate(kv, abv, time) ==
    LET hash == HGetAll(kv.abv, abv)
        days == HGetAll(kv.daily, abv)
    IN [kv EXCEPT
          !.abv = MapPut(@, abv, MapPut(MapPut(hash, "hits", Count(hash, "hits") + 1),
                                        "last_access", time)),
          !.daily = MapPut(@, abv, MapPut(days, Date(time), Count(days, Date(time)) + 1))]

RedisGetStats(kv, abv) ==
    LET hash == HGetAll(kv.abv, abv)
    IN IF DOMAIN hash = {} THEN [stats |-> EmptyShortUrl, err |-> "nil"]
       ELSE [stats |-> [Abbreviation |-> abv, Url |-> HGetUrl(kv, abv),
                        Hits |-> Count(hash, "hits"),
                        LastAccess |-> Count(hash, "last_access"),
                        DailyHits |-> HGetAll(kv.daily, abv)],
             err |-> "nil"]

\* a goroutine that is in no Save call
NotSaving == [pc |-> "idle", abv |-> <<>>, url |-> "", err |-> "nil"]

(***************************************************************************)
(* State.                                                                  *)
(***************************************************************************)
VARIABLES
    environ,    \* os.Getenv: startingkeysize and keygrowretries
    keySize,    \* the package variable of dao/abbreviator.go
    dao,        \* which ShortUrlDao the process runs on
    r,          \* the random source of package rando
    d,          \* the MemoryDB
    now,        \* time.Now()
    ret,        \* the last backend call made by the test driver and its result
    pc,         \* where each goroutine is
    url,        \* the URL each goroutine is creating an abbreviation for
    abv,        \* CreateAbbreviation's abv
    caTries,    \* CreateAbbreviation's tries
    rsTries,    \* randString's tries
    tmp,        \* the keySize read by keySize = keySize + 1, before it is written
    res,        \* what CreateAbbreviation returned
    resp,       \* the last response of the handler
    lookupErr,  \* history: a lookup of the running CreateAbbreviation call failed
    net,        \* the table of the networked backend
    detached,   \* the update goroutines GetUrl started that have not run yet
    served,     \* history: per row, the GetUrl calls that returned its URL
    status,     \* s, the SimpleStatus of main (of the driver, in SpecStatus)
    main,       \* the main goroutine of server.go
    redis,      \* the keyspace of the Redis server
    saving      \* where each goroutine is in its RedisDB.Save call

vars ==
    <<environ, keySize, dao, r, d, now, ret, pc, url, abv, caTries, rsTries, tmp,
      res, resp, lookupErr, net, detached, served, status, main, redis, saving>>

netVars == <<net, detached, served>>

srvVars == <<status, main, redis, saving>>

allocVars == <<keySize, pc, url, abv, caTries, rsTries, tmp, res, lookupErr>>

(***************************************************************************)
(* rando.RandStrn: every string the call can return.                       *)
(***************************************************************************)
chars ==
    <<"a", "b", "c", "d", "e", "f", "g", "h", "i", "j", "k", "l", "m",
      "n", "o", "p", "q", "r", "s", "t", "u", "v", "w", "x", "y", "z",
      "0", "1", "2", "3", "4", "5", "6", "7", "8", "9">>

\* r.Intn(n): r is the set of values the random source delivers in this run
Intn(n) == {i \in r : i < n}

\* the loop runs while i <= length
RandStrnOneMore(length) ==
    {[i \in 1..(length + 1) |-> chars[draw[i] + 1]] :
        draw \in [1..(length + 1) -> Intn(Len(chars))]}

RandStrn(length) ==
    {[i \in 1..length |-> chars[draw[i] + 1]] : draw \in [1..length -> Intn(Len(chars))]}

NoCall ==
    [op |-> "none", abv |-> <<>>, url |-> "", err |-> "nil",
     outUrl |-> "", outAbv |-> <<>>, outStats |-> EmptyShortUrl]

NoRes == [abv |-> <<>>, err |-> "nil"]

NoResp == [op |-> "none", code |-> 0, url |-> "", abv |-> <<>>]

\* the record a GetUrl call would touch has room for one more hit
HitRoom(db, a, max) ==
    Lookup(db.abvNdxMap, a) # Nil => db.heap[db.abvNdxMap[a]].Hits < max

InitWith(starts, retries, kinds, draws, stores) ==
    /\ environ \in [startingkeysize : starts, keygrowretries : retries]
    /\ keySize = IntOrDefault(environ.startingkeysize, 1)
    /\ dao \in kinds
    /\ r = draws
    /\ d \in stores
    /\ now = 1
    /\ ret = NoCall
    /\ pc = [p \in Procs |-> "idle"]
    /\ url = [p \in Procs |-> ""]
    /\ abv = [p \in Procs |-> <<>>]
    /\ caTries = [p \in Procs |-> 0]
    /\ rsTries = [p \in Procs |-> 0]
    /\ tmp = [p \in Procs |-> 0]
    /\ res = [p \in Procs |-> NoRes]
    /\ resp = NoResp
    /\ lookupErr = [p \in Procs |-> FALSE]
    /\ net = CreateNet
    /\ detached = EmptyBag
    /\ served = <<>>
    /\ status = EmptyStatus
    /\ main = NotStarted
    /\ redis = CreateRedisDB
    /\ saving = [p \in Procs |-> NotSaving]

(***************************************************************************)
(* SpecDao: a driver calling the backend directly, one call at a time.     *)
(***************************************************************************)
SaveCall(a, u) ==
    LET got == DaoSave(dao, d, a, u)
    IN /\ d' = got.db
       /\ ret' = [NoCall EXCEPT !.op = "Save", !.abv = a, !.url = u, !.err = got.err]
       /\ UNCHANGED <<now, environ, dao, r, allocVars, resp, netVars, srvVars>>

DeleteAbvCall(a) ==
    LET got == DaoDeleteAbv(dao, d, a)
    IN /\ d' = got.db
       /\ ret' = [NoCall EXCEPT !.op = "DeleteAbv", !.abv = a, !.err = got.err]
       /\ UNCHANGED <<now, environ, dao, r, allocVars, resp, netVars, srvVars>>

DeleteUrlCall(u) ==
    LET got == IF dao = "LockedMemoryDB" THEN LockedDeleteUrl(d, u) ELSE DeleteUrl(d, u)
    IN /\ d' = got.db
       /\ ret' = [NoCall EXCEPT !.op = "DeleteUrl", !.url = u, !.err = got.err]
       /\ UNCHANGED <<now, environ, dao, r, allocVars, resp, netVars, srvVars>>

GetUrlCall(a) ==
    \E got \in DaoGetUrl(dao, d, a, now) :
       /\ HitRoom(d, a, MaxHits)
       /\ d' = got.db
       /\ ret' = [NoCall EXCEPT !.op = "GetUrl", !.abv = a, !.err = got.err,
                                !.outUrl = got.url]
       /\ UNCHANGED <<now, environ, dao, r, allocVars, resp, netVars, srvVars>>

GetAbvCall(u) ==
    LET got == DaoGetAbv(dao, d, u)
    IN /\ ret' = [NoCall EXCEPT !.op = "GetAbv", !.url = u, !.err = got.err,
                                !.outAbv = got.abv]
       /\ UNCHANGED <<d, now, environ, dao, r, allocVars, resp, netVars, srvVars>>

GetStatsCallCounting(a) ==
    LET got == GetStats(d, a)
    IN /\ HitRoom(d, a, MaxHits)
       /\ d' = GetUrl(d, a, now).db
       /\ ret' = [NoCall EXCEPT !.op = "GetStats", !.abv = a, !.err = got.err,
                                !.outStats = got.stats]
       /\ UNCHANGED <<now, environ, dao, r, allocVars, resp, netVars, srvVars>>

GetStatsCall(a) ==
    LET got == GetStats(d, a)
    IN /\ ret' = [NoCall EXCEPT !.op = "GetStats", !.abv = a, !.err = got.err,
                                !.outStats = got.stats]
       /\ UNCHANGED <<d, now, environ, dao, r, allocVars, resp, netVars, srvVars>>

Tick ==
    /\ now < MaxClock
    /\ now' = now + 1
    /\ UNCHANGED <<d, ret, environ, dao, r, allocVars, resp, netVars, srvVars>>

NextDao ==
    \/ \E a \in DaoAbvs, u \in Urls : SaveCall(a, u)
    \/ \E a \in DaoAbvs : DeleteAbvCall(a)
    \/ \E u \in Urls : DeleteUrlCall(u)
    \/ \E a \in DaoAbvs : GetUrlCall(a)
    \/ \E u \in Urls : GetAbvCall(u)
    \/ \E a \in DaoAbvs : GetStatsCall(a)
    \/ Tick

InitDao == InitWith({<<>>}, {<<>>}, {"MemoryDB"}, {0}, {CreateMemoryDB})

SpecDao == InitDao /\ [][NextDao]_vars

\* SpecLocked: the same calls on the mutex-protected MemoryDB.  Each method
\* holds d.mu from its first statement to its return, so the calls of
\* concurrent goroutines take effect one after the other, in any order.
SpecLocked ==
    InitWith({<<>>}, {<<>>}, {"LockedMemoryDB"}, {0}, {CreateMemoryDB})
        /\ [][NextDao]_vars

\* return *su copies the struct: the caller of GetStats gets its own
\* Abbreviation, Url, Hits and LastAccess, and in DailyHits the map of the
\* stored record.  StatsHeld is that value as its holder reads it when the
\* store is db (the record not having been replaced by a Save since).
StatsHeld(db, st) ==
    LET su == NewPtr(st.Abbreviation, st.Url)
    IN IF su \in DOMAIN db.heap THEN [st EXCEPT !.DailyHits = db.heap[su].DailyHits]
       ELSE st

\* the caller of the last GetStats call assigns stats.DailyHits[date] = v,
\* a count other than the one it finds there
CallerWrites(v) ==
    LET su == NewPtr(ret.outStats.Abbreviation, ret.outStats.Url)
    IN /\ ret.op = "GetStats"
       /\ su \in DOMAIN d.heap
       /\ Count(d.heap[su].DailyHits, Date(now)) # v
       /\ d' = [d EXCEPT !.heap[su].DailyHits = MapPut(@, Date(now), v)]
       /\ ret' = [ret EXCEPT !.outStats = StatsHeld(d', @)]
       /\ UNCHANGED <<now, environ, dao, r, allocVars, resp, netVars, srvVars>>

\* SpecSnapshot: SpecLocked with a caller that also writes to what GetStats
\* returned to it
SpecSnapshot ==
    InitWith({<<>>}, {<<>>}, {"LockedMemoryDB"}, {0}, {CreateMemoryDB})
        /\ [][NextDao \/ CallerWrites(0)]_vars


(***************************************************************************)
(* CreateAbbreviation(url, dao), run by goroutine p.  A step ends at each  *)
(* access to keySize or to the backend, where another goroutine can run.   *)
(***************************************************************************)
othersKeep == <<environ, dao, r, now, ret, netVars, srvVars>>

\* the call: tries := 0 and abv := randString(), whose own tries starts at 0
Enter(p, u) ==
    /\ pc' = [pc EXCEPT ![p] = "randString"]
    /\ url' = [url EXCEPT ![p] = u]
    /\ abv' = [abv EXCEPT ![p] = <<>>]
    /\ caTries' = [caTries EXCEPT ![p] = 0]
    /\ rsTries' = [rsTries EXCEPT ![p] = 0]
    /\ res' = [res EXCEPT ![p] = NoRes]
    /\ lookupErr' = [lookupErr EXCEPT ![p] = FALSE]
    /\ UNCHANGED <<keySize, tmp>>

\* randString returning the candidate it drew without asking the filter
RandStringStepUnfiltered(p) ==
    /\ pc[p] = "randString"
    /\ \E s \in RandStrn(keySize) :
         /\ abv' = [abv EXCEPT ![p] = s]
         /\ pc' = [pc EXCEPT ![p] = "lookup"]
    /\ UNCHANGED <<keySize, url, caTries, rsTries, tmp, res, lookupErr, d, resp, othersKeep>>

\* one turn of randString's loop: a candidate of the current keySize is
\* drawn and returned if acceptable; otherwise tries is counted
RandStringStep(p) ==
    /\ pc[p] = "randString"
    /\ \E s \in RandStrn(keySize) :
         IF AcceptableWord(s)
         THEN /\ abv' = [abv EXCEPT ![p] = s]
              /\ pc' = [pc EXCEPT ![p] = "lookup"]
              /\ UNCHANGED rsTries
         ELSE /\ IF ShouldGrow(rsTries[p] + 1, environ.keygrowretries)
                 THEN /\ rsTries' = [rsTries EXCEPT ![p] = 0]
                      /\ pc' = [pc EXCEPT ![p] = "rsGrowRead"]
                 ELSE /\ rsTries' = [rsTries EXCEPT ![p] = @ + 1]
                      /\ UNCHANGED pc
              /\ UNCHANGED abv
    /\ UNCHANGED <<keySize, url, caTries, tmp, res, lookupErr, d, resp, othersKeep>>

\* keySize = keySize + 1 in randString: the read
RsGrowRead(p) ==
    /\ pc[p] = "rsGrowRead"
    /\ tmp' = [tmp EXCEPT ![p] = keySize]
    /\ pc' = [pc EXCEPT ![p] = "rsGrowWrite"]
    /\ UNCHANGED <<keySize, url, abv, caTries, rsTries, res, lookupErr,
                   d, resp, othersKeep>>

\* keySize = keySize + 1 in randString: the write
RsGrowWrite(p) ==
    /\ pc[p] = "rsGrowWrite"
    /\ tmp[p] + 1 <= MaxKeySize
    /\ keySize' = tmp[p] + 1
    /\ tmp' = [tmp EXCEPT ![p] = 0]
    /\ pc' = [pc EXCEPT ![p] = "randString"]
    /\ UNCHANGED <<url, abv, caTries, rsTries, res, lookupErr, d, resp, othersKeep>>

\* u, _ = dao.GetUrl(abv) and the test of the loop: the call returns abv, or
\* counts the collision
LookupStep(p, cap) ==
    /\ pc[p] = "lookup"
    /\ HitRoom(d, abv[p], cap)
    /\ \E got \in DaoGetUrl(dao, d, abv[p], now) :
         /\ d' = got.db
         /\ lookupErr' = [lookupErr EXCEPT ![p] = @ \/ got.err # "nil"]
         /\ IF Collides(got.url, url[p])
            THEN /\ IF ShouldGrow(caTries[p] + 1, environ.keygrowretries)
                    THEN /\ caTries' = [caTries EXCEPT ![p] = 0]
                         /\ pc' = [pc EXCEPT ![p] = "caGrowRead"]
                    ELSE /\ caTries' = [caTries EXCEPT ![p] = @ + 1]
                         /\ pc' = [pc EXCEPT ![p] = "relookup"]
                 /\ UNCHANGED res
            ELSE /\ res' = [res EXCEPT ![p] = [abv |-> abv[p], err |-> "nil"]]
                 /\ caTries' = [caTries EXCEPT ![p] = 0]
                 /\ pc' = [pc EXCEPT ![p] = "returned"]
    /\ UNCHANGED <<keySize, url, abv, rsTries, tmp, resp, othersKeep>>

\* keySize = keySize + 1 in CreateAbbreviation: the read
CaGrowRead(p) ==
    /\ pc[p] = "caGrowRead"
    /\ tmp' = [tmp EXCEPT ![p] = keySize]
    /\ pc' = [pc EXCEPT ![p] = "caGrowWrite"]
    /\ UNCHANGED <<keySize, url, abv, caTries, rsTries, res, lookupErr,
                   d, resp, othersKeep>>

\* keySize = keySize + 1 in CreateAbbreviation: the write
CaGrowWrite(p) ==
    /\ pc[p] = "caGrowWrite"
    /\ tmp[p] + 1 <= MaxKeySize
    /\ keySize' = tmp[p] + 1
    /\ tmp' = [tmp EXCEPT ![p] = 0]
    /\ pc' = [pc EXCEPT ![p] = "relookup"]
    /\ UNCHANGED <<url, abv, caTries, rsTries, res, lookupErr, d, resp, othersKeep>>

\* the second lookup ending the call with an error whatever it returned
RelookupGivesUp(p, cap) ==
    /\ pc[p] = "relookup"
    /\ HitRoom(d, abv[p], cap)
    /\ \E got \in DaoGetUrl(dao, d, abv[p], now) :
         /\ d' = got.db
         /\ lookupErr' = [lookupErr EXCEPT ![p] = @ \/ got.err # "nil"]
    /\ res' = [res EXCEPT ![p] = [abv |-> <<>>, err |-> "error"]]
    /\ caTries' = [caTries EXCEPT ![p] = 0]
    /\ pc' = [pc EXCEPT ![p] = "returned"]
    /\ UNCHANGED <<keySize, url, abv, rsTries, tmp, resp, othersKeep>>

\* _, err := dao.GetUrl(abv) on the colliding abv: an error ends the call,
\* otherwise abv = randString()
Relookup(p, cap) ==
    /\ pc[p] = "relookup"
    /\ HitRoom(d, abv[p], cap)
    /\ \E got \in DaoGetUrl(dao, d, abv[p], now) :
         /\ d' = got.db
         /\ lookupErr' = [lookupErr EXCEPT ![p] = @ \/ got.err # "nil"]
         /\ IF got.err # "nil"
            THEN /\ res' = [res EXCEPT ![p] = [abv |-> <<>>, err |-> "error"]]
                 /\ caTries' = [caTries EXCEPT ![p] = 0]
                 /\ pc' = [pc EXCEPT ![p] = "returned"]
                 /\ UNCHANGED rsTries
            ELSE /\ pc' = [pc EXCEPT ![p] = "randString"]
                 /\ rsTries' = [rsTries EXCEPT ![p] = 0]
                 /\ UNCHANGED <<res, caTries>>
    /\ UNCHANGED <<keySize, url, abv, tmp, resp, othersKeep>>

(***************************************************************************)
(* SpecAlloc: a test of CreateAbbreviation.  The test starts from a store  *)
(* holding its records, calls CreateAbbreviation once and reads the result.*)
(***************************************************************************)
Tester == CHOOSE p \in Procs : TRUE

TestCall(p, u) ==
    /\ pc[p] = "idle"
    /\ Enter(p, u)
    /\ UNCHANGED <<d, resp, othersKeep>>

TestDrop(p) ==
    /\ pc[p] = "returned"
    /\ pc' = [pc EXCEPT ![p] = "done"]
    /\ UNCHANGED <<keySize, url, abv, caTries, rsTries, tmp, res, lookupErr,
                   d, resp, othersKeep>>

NextAlloc ==
    \/ \E u \in Urls : TestCall(Tester, u)
    \/ RandStringStep(Tester)
    \/ RsGrowRead(Tester)
    \/ RsGrowWrite(Tester)
    \/ LookupStep(Tester, MaxAllocHits)
    \/ CaGrowRead(Tester)
    \/ CaGrowWrite(Tester)
    \/ Relookup(Tester, MaxAllocHits)
    \/ TestDrop(Tester)

\* the stores of the tests: empty, or one record saved
Fixtures ==
    {CreateMemoryDB} \cup {Save(CreateMemoryDB, a, u).db : a \in FixtureAbvs, u \in Urls}

InitAlloc ==
    InitWith({<<>>, <<"0">>, <<"3">>}, {<<>>}, {"MemoryDB", "Unreliable"},
             {0, 18}, Fixtures)

SpecAlloc == InitAlloc /\ [][NextAlloc]_vars

(***************************************************************************)
(* SpecAllocFair: the test on MemoryDB, whose lookups never fail, under a  *)
(* scheduler that lets the call run and a random source that is fair:      *)
(* every string randString can draw infinitely often is drawn, so when an  *)
(* acceptable candidate that no other URL holds can be drawn again and     *)
(* again, one is drawn.  The source delivers 'a' only, or 'a' and 's' from *)
(* startingkeysize=3.                                                      *)
(***************************************************************************)
InitAllocFair ==
    \/ InitWith({<<>>, <<"0">>}, {<<>>}, {"MemoryDB"}, {0}, Fixtures)
    \/ InitWith({<<"3">>}, {<<>>}, {"MemoryDB"}, {0, 18}, Fixtures)

SpecAllocFair ==
    /\ InitAllocFair
    /\ [][NextAlloc]_vars
    /\ WF_vars(NextAlloc)
    /\ SF_vars(/\ RandStringStep(Tester)
               /\ pc'[Tester] = "lookup"
               /\ ~Collides(GetStats(d, abv'[Tester]).stats.Url, url[Tester]))

(***************************************************************************)
(* The handlers.  Goroutine p serves one request at a time; resp is the    *)
(* response written last, NoResp when the handler panicked and wrote none. *)
(***************************************************************************)
Response(op, code, u, a) == [op |-> op, code |-> code, url |-> u, abv |-> a]

\* addHandler up to the call of CreateAbbreviation.  fails: h.dao.GetAbv(u)
\* returns "" and an error, which abv, _ := drops
AddRequest(p, u, fails) ==
    /\ pc[p] = "idle"
    /\ fails => dao = "Unreliable"
    /\ LET got == IF fails THEN [abv |-> <<>>, err |-> "error"]
                  ELSE DaoGetAbv(dao, d, u)
       IN IF got.abv # <<>>
          THEN /\ resp' = Response("add", 200, u, got.abv)
               /\ UNCHANGED allocVars
          ELSE /\ Enter(p, u)
               /\ UNCHANGED resp
    /\ UNCHANGED <<d, othersKeep>>

\* addHandler from the return of CreateAbbreviation: Save and the response
AddSave(p) ==
    /\ pc[p] = "returned"
    /\ IF res[p].err # "nil"
       THEN /\ resp' = Response("add", 500, url[p], <<>>)
            /\ UNCHANGED d
       ELSE LET got == DaoSave(dao, d, res[p].abv, url[p])
            IN /\ d' = got.db
               /\ resp' = IF got.err # "nil" THEN Response("add", 500, url[p], <<>>)
                          ELSE Response("add", 201, url[p], res[p].abv)
    /\ pc' = [pc EXCEPT ![p] = "idle"]
    /\ url' = [url EXCEPT ![p] = ""]
    /\ abv' = [abv EXCEPT ![p] = <<>>]
    /\ caTries' = [caTries EXCEPT ![p] = 0]
    /\ rsTries' = [rsTries EXCEPT ![p] = 0]
    /\ res' = [res EXCEPT ![p] = NoRes]
    /\ lookupErr' = [lookupErr EXCEPT ![p] = FALSE]
    /\ UNCHANGED <<keySize, tmp, othersKeep>>

getHandler(p, a) ==
    /\ pc[p] = "idle"
    /\ HitRoom(d, a, MaxHits)
    /\ \E got \in DaoGetUrl(dao, d, a, now) :
         /\ d' = got.db
         /\ resp' = IF got.err # "nil" THEN Response("get", 500, "", a)
                    ELSE IF got.url = "" THEN Response("get", 404, "", a)
                    ELSE Response("get", 302, got.url, a)
    /\ UNCHANGED <<allocVars, othersKeep>>

\* a panic of the backend call is recovered by net/http: no response
deleteHandler(p, a) ==
    /\ pc[p] = "idle"
    /\ LET got == DaoDeleteAbv(dao, d, a)
       IN /\ d' = got.db
          /\ resp' = IF got.err = "panic" THEN NoResp
                     ELSE IF got.err # "nil" THEN Response("delete", 500, "", a)
                     ELSE Response("delete", 200, "", a)
    /\ UNCHANGED <<allocVars, othersKeep>>

(***************************************************************************)
(* Spec: the server under concurrent create requests, on the mutex-        *)
(* protected MemoryDB.                                                     *)
(***************************************************************************)
RequestUrls == Urls \cup {"u3"}

Next ==
    \/ \E p \in Procs, u \in RequestUrls : AddRequest(p, u, FALSE)
    \/ \E p \in Procs : RandStringStep(p)
    \/ \E p \in Procs : RsGrowRead(p)
    \/ \E p \in Procs : RsGrowWrite(p)
    \/ \E p \in Procs : LookupStep(p, MaxServeHits)
    \/ \E p \in Procs : CaGrowRead(p)
    \/ \E p \in Procs : CaGrowWrite(p)
    \/ \E p \in Procs : Relookup(p, MaxServeHits)
    \/ \E p \in Procs : AddSave(p)

\* a fresh server whose random source delivers 'a' only
InitFresh == InitWith({<<>>}, {<<"0">>}, {"LockedMemoryDB"}, {0}, {CreateMemoryDB})

TwoRecords == Save(Save(CreateMemoryDB, <<"a">>, "u1").db, <<"s">>, "u2").db

\* a server started with startingkeysize=3 on a store holding two records
InitLoaded == InitWith({<<"3">>}, {<<"0">>}, {"LockedMemoryDB"}, {0, 18}, {TwoRecords})

Init == InitFresh \/ InitLoaded

Spec == Init /\ [][Next]_vars

(***************************************************************************)
(* SpecSeq: the server under requests sent one after the other, each       *)
(* answered before the next is sent.                                       *)
(***************************************************************************)
NextSeq ==
    \/ \E u \in Urls : AddRequest(Tester, u, FALSE)
    \/ RandStringStep(Tester)
    \/ RsGrowRead(Tester)
    \/ RsGrowWrite(Tester)
    \/ LookupStep(Tester, MaxAllocHits)
    \/ CaGrowRead(Tester)
    \/ CaGrowWrite(Tester)
    \/ Relookup(Tester, MaxAllocHits)
    \/ AddSave(Tester)
    \/ \E a \in DaoAbvs : getHandler(Tester, a)
    \/ \E a \in DaoAbvs : deleteHandler(Tester, a)

InitSeq ==
    InitWith({<<>>, <<"0">>}, {<<>>, <<"0">>}, {"MemoryDB", "LockedMemoryDB"},
             {0, 18}, {CreateMemoryDB})

SpecSeq == InitSeq /\ [][NextSeq]_vars

(***************************************************************************)
(* SpecFlaky: create requests sent one after the other to a server with    *)
(* keygrowretries=0 on a backend whose calls can fail.  The random source  *)
(* delivers 'a' only, so randString accepts every candidate it draws and   *)
(* never reaches its own keySize = keySize + 1.                            *)
(***************************************************************************)
NextFlaky ==
    \/ \E u \in Urls, fails \in BOOLEAN : AddRequest(Tester, u, fails)
    \/ RandStringStep(Tester)
    \/ LookupStep(Tester, MaxAllocHits)
    \/ CaGrowRead(Tester)
    \/ CaGrowWrite(Tester)
    \/ Relookup(Tester, MaxAllocHits)
    \/ AddSave(Tester)

SpecFlaky ==
    InitWith({<<>>}, {<<"0">>}, {"Unreliable"}, {0}, {CreateMemoryDB})
        /\ [][NextFlaky]_vars

(***************************************************************************)
(* SpecNet: the server on SQLiteDB or MongoDB.  A driver saves and deletes *)
(* records, requests are resolved through getHandler, and the update       *)
(* goroutines GetUrl started run one at a time, in any order, whenever the *)
(* scheduler picks them.                                                   *)
(***************************************************************************)
NetSaveCall(a, u) ==
    /\ net.nextId <= MaxRows
    /\ \E got \in NetSave(dao, net, a, u) :
         /\ net' = got.net
         /\ ret' = [NoCall EXCEPT !.op = "Save", !.abv = a, !.url = u, !.err = got.err]
    /\ UNCHANGED <<d, detached, served, now, environ, dao, r, srvVars, allocVars, resp>>

NetDeleteAbvCall(a) ==
    LET got == IF dao = "MongoDB" THEN MongoDeleteAbv(net, a) ELSE SQLiteDeleteAbv(net, a)
    IN /\ net' = got.net
       /\ served' = [id \in (DOMAIN served) \cap (DOMAIN got.net.rows) |-> served[id]]
       /\ ret' = [NoCall EXCEPT !.op = "DeleteAbv", !.abv = a, !.err = got.err]
       /\ UNCHANGED <<d, detached, now, environ, dao, r, srvVars, allocVars, resp>>

RECURSIVE SumOf(_)
SumOf(f) ==
    IF DOMAIN f = {} THEN 0
    ELSE LET k == CHOOSE x \in DOMAIN f : TRUE
         IN f[k] + SumOf([x \in (DOMAIN f) \ {k} |-> f[x]])

\* the resolved requests of the stored records
Resolved == SumOf(served)

\* getHandler on a networked backend: h.dao.GetUrl(abv), which starts the
\* update goroutine when it found the record, and the response
getHandlerNet(a, queryFails) ==
    LET got == NetGetUrl(dao, net, a, queryFails)
        id == IdOfAbv(net, a)
    IN /\ got.update # Nil =>
            Resolved < MaxHits /\ BagCardinality(detached) < MaxHits
       /\ ret' = [NoCall EXCEPT !.op = "GetUrl", !.abv = a, !.err = got.err,
                                !.outUrl = got.url]
       /\ resp' = IF got.err # "nil" THEN Response("get", 500, "", a)
                  ELSE IF got.url = "" THEN Response("get", 404, "", a)
                  ELSE Response("get", 302, got.url, a)
       /\ detached' = IF got.update # Nil THEN detached (+) SetToBag({got.update})
                      ELSE detached
       /\ served' = IF got.update # Nil THEN MapPut(served, id, Count(served, id) + 1)
                    ELSE served
       /\ UNCHANGED <<d, net, now, environ, dao, r, srvVars, allocVars>>

\* the goroutine is started again when a statement failed
RunUpdateRetrying(update, o) ==
    /\ BagIn(update, detached)
    /\ net' = ApplyUpdate(net, update, o, now)
    /\ detached' = IF o.hits /\ o.daily THEN detached (-) SetToBag({update}) ELSE detached
    /\ UNCHANGED <<d, served, ret, now, environ, dao, r, srvVars, allocVars, resp>>

\* one update goroutine runs, under d.mu, from its first statement to its
\* last; a failed statement is logged and the goroutine goes on and ends
RunUpdate(update, o) ==
    /\ BagIn(update, detached)
    /\ net' = ApplyUpdate(net, update, o, now)
    /\ detached' = detached (-) SetToBag({update})
    /\ UNCHANGED <<d, served, ret, now, environ, dao, r, srvVars, allocVars, resp>>

NextNet ==
    \/ \E a \in DaoAbvs, u \in Urls : NetSaveCall(a, u)
    \/ \E a \in DaoAbvs : NetDeleteAbvCall(a)
    \/ \E a \in DaoAbvs, queryFails \in BOOLEAN : getHandlerNet(a, queryFails)
    \/ \E update \in BagToSet(detached), o \in UpdateOutcomes(dao) : RunUpdate(update, o)
    \/ Tick

InitNet == InitWith({<<>>}, {<<>>}, {"SQLiteDB", "MongoDB"}, {0}, {CreateMemoryDB})

SpecNet == InitNet /\ [][NextNet]_vars

(***************************************************************************)
(* SpecRando: one call of rando.RandStrn by a test, on a random source     *)
(* that delivers every index of chars.                                     *)
(***************************************************************************)
Lengths == (0 - 1)..MaxLength

RandStrnCall(length) ==
    /\ ret.op = "none"
    /\ \E str \in RandStrn(length) :
         ret' = [op |-> "RandStrn", length |-> length, out |-> str]
    /\ UNCHANGED <<d, now, environ, dao, r, allocVars, resp, netVars, srvVars>>

NextRando == \E length \in Lengths : RandStrnCall(length)

InitRando ==
    InitWith({<<>>}, {<<>>}, {"MemoryDB"}, 0..(Len(chars) - 1), {CreateMemoryDB})

SpecRando == InitRando /\ [][NextRando]_vars

(***************************************************************************)
(* SpecStatus: a driver calling the methods of one SimpleStatus, and the   *)
(* two handlers that serve it.                                             *)
(***************************************************************************)
Messages == {"m1", "m2"}

StatusResponse(st) == [op |-> "status", code |-> 200, body |-> st]

statusKeeps == <<d, ret, now, environ, dao, r, allocVars, netVars, main, redis, saving>>

NewStatusCall ==
    /\ status = EmptyStatus
    /\ status' = NewStatus(now)
    /\ UNCHANGED <<resp, statusKeeps>>

OkCall(m) ==
    /\ status # EmptyStatus
    /\ status' = Ok(status, m, now)
    /\ UNCHANGED <<resp, statusKeeps>>

WarnCall(m) ==
    /\ status # EmptyStatus
    /\ status' = Warn(status, m, now)
    /\ UNCHANGED <<resp, statusKeeps>>

CriticalCall(m) ==
    /\ status # EmptyStatus
    /\ status' = SimpleStatusCritical(status, m, now)
    /\ UNCHANGED <<resp, statusKeeps>>

UnknownCall(m) ==
    /\ status # EmptyStatus
    /\ status' = SimpleStatusUnknown(status, m, now)
    /\ UNCHANGED <<resp, statusKeeps>>

\* Handler encodes s.Current()
HandlerCall ==
    /\ status # EmptyStatus
    /\ status' = Current(status, now)
    /\ resp' = StatusResponse(status')
    /\ UNCHANGED statusKeeps

\* BackgroundHandler encodes s as it is
BackgroundHandlerCall ==
    /\ status # EmptyStatus
    /\ resp' = StatusResponse(status)
    /\ UNCHANGED <<status, statusKeeps>>

NextStatus ==
    \/ NewStatusCall
    \/ \E m \in Messages : OkCall(m)
    \/ \E m \in Messages : WarnCall(m)
    \/ \E m \in Messages : CriticalCall(m)
    \/ \E m \in Messages : UnknownCall(m)
    \/ HandlerCall
    \/ BackgroundHandlerCall
    \/ Tick

InitStatus == InitWith({<<>>}, {<<>>}, {"MemoryDB"}, {0}, {CreateMemoryDB})

SpecStatus == InitStatus /\ [][NextStatus]_vars

(***************************************************************************)
(* SpecServer: main of server.go from its first statement to the exit of   *)
(* the process, with the ticker goroutine that probes the backend and the  *)
(* requests of the status endpoint.  dao is the backend mongo_uri selects. *)
(***************************************************************************)
serverKeeps == <<d, ret, environ, dao, r, allocVars, netVars, redis, saving>>

\* db = dao.CreateMemoryDB() or dao.CreateMongoDB(mongoUri), which ends the
\* process when it cannot connect; then defer db.Cleanup()
CreateDb(connects) ==
    /\ main.pc = "start"
    /\ main' = IF connects
               THEN [main EXCEPT !.pc = "created", !.db = dao,
                                 !.deferred = <<"Cleanup">> \o @]
               ELSE [main EXCEPT !.pc = "exited"]
    /\ UNCHANGED <<status, resp, now, serverKeeps>>

\* s := status.NewStatus() and the start of the ticker goroutine
StartProbing ==
    /\ main.pc = "created"
    /\ status' = NewStatus(now)
    /\ main' = [main EXCEPT !.pc = "probing"]
    /\ UNCHANGED <<resp, now, serverKeeps>>

\* h := handlers.CreateHandlers(db, s, ...), h.SetUp(e) and the goroutine
\* that runs srv.ListenAndServe()
StartServing ==
    /\ main.pc = "probing"
    /\ main' = [main EXCEPT !.pc = "serving", !.handlers = status]
    /\ UNCHANGED <<status, resp, now, serverKeeps>>

\* s.Ok("All good"), signal.Notify and <-c
Ready ==
    /\ main.pc = "serving"
    /\ status' = Ok(status, "All good", now)
    /\ main' = [main EXCEPT !.pc = "waiting"]
    /\ UNCHANGED <<resp, now, serverKeeps>>

\* one round of the ticker goroutine
Probe(isLikelyOk) ==
    /\ main.pc \in {"probing", "serving", "waiting", "shutdown"}
    /\ status' = IF isLikelyOk THEN Ok(status, "All good", now)
                 ELSE Warn(status, "Database is down", now)
    /\ UNCHANGED <<main, resp, now, serverKeeps>>

\* a request of statusPath: h.status.BackgroundHandler
StatusRequest ==
    /\ main.pc \in {"serving", "waiting"}
    /\ resp' = StatusResponse(main.handlers)
    /\ UNCHANGED <<main, status, now, serverKeeps>>

\* os.Interrupt arrives on c
Interrupt ==
    /\ main.pc = "waiting"
    /\ main' = [main EXCEPT !.pc = "shutdown"]
    /\ UNCHANGED <<status, resp, now, serverKeeps>>

\* srv.Shutdown(ctx) and os.Exit(0): the process ends where it stands, the
\* deferred calls are not run
Shutdown ==
    /\ main.pc = "shutdown"
    /\ main' = [main EXCEPT !.pc = "exited"]
    /\ UNCHANGED <<status, resp, now, serverKeeps>>

NextServer ==
    \/ \E connects \in (IF dao = "MongoDB" THEN BOOLEAN ELSE {TRUE}) : CreateDb(connects)
    \/ StartProbing
    \/ StartServing
    \/ Ready
    \/ \E isLikelyOk \in (IF main.db = "MongoDB" THEN BOOLEAN ELSE {TRUE}) : Probe(isLikelyOk)
    \/ StatusRequest
    \/ Interrupt
    \/ Shutdown
    \/ Tick

InitServer == InitWith({<<>>}, {<<>>}, {"MemoryDB", "MongoDB"}, {0}, {CreateMemoryDB})

SpecServer == InitServer /\ [][NextServer]_vars

(***************************************************************************)
(* SpecRedis: the server on RedisDB.  Each goroutine of Procs makes one    *)
(* Save call, which reads the abbreviation's URL and then runs its         *)
(* pipeline; in between the other goroutine can run.  A driver deletes and *)
(* resolves, and the update goroutines run when the scheduler picks them.  *)
(***************************************************************************)
redisKeeps == <<d, now, environ, dao, r, allocVars, resp, net, served, status, main>>

\* Save up to the check of the existing URL
RedisSaveCheck(p, a, u) ==
    /\ saving[p].pc = "idle"
    /\ saving' = [saving EXCEPT ![p] =
          IF HGetUrl(redis, a) # "" /\ HGetUrl(redis, a) # u
          THEN [pc |-> "done", abv |-> a, url |-> u, err |-> "error"]
          ELSE [pc |-> "exec", abv |-> a, url |-> u, err |-> "nil"]]
    /\ UNCHANGED <<redis, ret, detached, redisKeeps>>

\* Save from pipe.Exec(ctx) to its return
RedisSavePipeline(p, execFails) ==
    /\ saving[p].pc = "exec"
    /\ redis' = IF execFails THEN redis
                ELSE RedisSaveExec(redis, saving[p].abv, saving[p].url)
    /\ saving' = [saving EXCEPT ![p].pc = "done",
                                ![p].err = IF execFails THEN "error" ELSE "nil"]
    /\ UNCHANGED <<ret, detached, redisKeeps>>

RedisDeleteAbvCall(a, fails) ==
    LET got == RedisDeleteAbv(redis, a, fails)
    IN /\ redis' = got.db
       /\ ret' = [NoCall EXCEPT !.op = "DeleteAbv", !.abv = a, !.err = got.err]
       /\ UNCHANGED <<saving, detached, redisKeeps>>

RedisGetUrlCall(a, queryFails) ==
    LET got == RedisGetUrl(redis, a, queryFails)
    IN /\ got.update # Nil =>
            Count(HGetAll(redis.abv, a), "hits") + BagCardinality(detached) < MaxHits
       /\ ret' = [NoCall EXCEPT !.op = "GetUrl", !.abv = a, !.err = got.err,
                                !.outUrl = got.url]
       /\ detached' = IF got.update # Nil THEN detached (+) SetToBag({got.update})
                      ELSE detached
       /\ UNCHANGED <<redis, saving, redisKeeps>>

\* one update goroutine runs: its pipeline is applied as a whole, or fails
\* as a whole and is logged
RedisRunUpdate(update, applied) ==
    /\ BagIn(update, detached)
    /\ redis' = IF applied THEN RedisUpdate(redis, update[2], now) ELSE redis
    /\ detached' = detached (-) SetToBag({update})
    /\ UNCHANGED <<saving, ret, redisKeeps>>

NextRedis ==
    \/ \E p \in Procs, a \in DaoAbvs, u \in Urls : RedisSaveCheck(p, a, u)
    \/ \E p \in Procs, execFails \in BOOLEAN : RedisSavePipeline(p, execFails)
    \/ \E a \in DaoAbvs, fails \in BOOLEAN : RedisDeleteAbvCall(a, fails)
    \/ \E a \in DaoAbvs, queryFails \in BOOLEAN : RedisGetUrlCall(a, queryFails)
    \/ \E update \in BagToSet(detached), applied \in BOOLEAN : RedisRunUpdate(update, applied)

SpecRedis ==
    InitWith({<<>>}, {<<>>}, {"RedisDB"}, {0}, {CreateMemoryDB}) /\ [][NextRedis]_vars

(***************************************************************************)
(* What a caller can observe of the store.                                 *)
(***************************************************************************)
\* the URL GetUrl(a) resolves to, "" when a is unbound
BoundUrl(db, a) ==
    IF Lookup(db.abvNdxMap, a) # Nil THEN db.heap[db.abvNdxMap[a]].Url ELSE ""

\* the abbreviation GetAbv(u) answers, empty when u is unbound
BoundAbv(db, u) == GetAbv(db, u).abv

HasRecord(db, a, u) == BoundUrl(db, a) = u /\ BoundAbv(db, u) = a

View(db) ==
    [stats |-> [a \in DaoAbvs |-> GetStats(db, a).stats],
     urlOf |-> [a \in DaoAbvs |-> BoundUrl(db, a)],
     abvOf |-> [u \in Urls |-> BoundAbv(db, u)]]

(***************************************************************************)
(* Claims about the backend calls (SpecDao).                               *)
(***************************************************************************)
\* C8: Save(abv, url2) on a store where abv is bound to a different URL
\* fails with a conflict error.
C8_SaveConflictFails ==
    [][\A a \in DaoAbvs, u \in Urls :
         (SaveCall(a, u) /\ BoundUrl(d, a) \notin {"", u}) => ret'.err # "nil"]_vars

\* C9: Save(abv, url) on a store that already holds the record (abv, url)
\* succeeds and changes nothing a caller can observe: hits, lastAccess,
\* dailyHits and both lookup directions stay as they were.
C9_SaveSameIsNoop ==
    [][\A a \in DaoAbvs, u \in Urls :
         (SaveCall(a, u) /\ HasRecord(d, a, u))
            => (ret'.err = "nil" /\ View(d') = View(d))]_vars

\* C10: in every reachable state the abbreviation index maps abv to url
\* if and only if the URL index maps url to abv.
C10_BothDirectionsOrNeither ==
    \A a \in DaoAbvs, u \in Urls : (BoundUrl(d, a) = u) <=> (BoundAbv(d, u) = a)

(***************************************************************************)
(* Claims about one CreateAbbreviation call (SpecAlloc).                   *)
(***************************************************************************)
Returned(p) == pc[p] \in {"returned", "done"}

\* C1: when every lookup of the call succeeded and nobody else wrote, the
\* abbreviation CreateAbbreviation returned is unbound in the backend or
\* bound to the URL it was allocated for, never to a different URL.
C1_ReturnedNotConflicting ==
    \A p \in Procs :
        (Returned(p) /\ ~lookupErr[p] /\ res[p].err = "nil")
            => BoundUrl(d, res[p].abv) \in {"", url[p]}

\* a call that met a record of another URL, was rejected on it, and returned
C1_Witness ==
    \E p \in Procs, a \in FixtureAbvs :
        /\ pc[p] = "returned" /\ ~lookupErr[p] /\ res[p].err = "nil"
        /\ BoundUrl(d, a) \notin {"", url[p]}
        /\ GetStats(d, a).stats.Hits > 0
        /\ res[p].abv # a

\* C2: for every URL, CreateAbbreviation returns a non-empty abbreviation
\* that AcceptableWord accepts.
C2_ReturnedNonEmptyAcceptable ==
    \A p \in Procs :
        (Returned(p) /\ res[p].err = "nil")
            => (res[p].abv # <<>> /\ AcceptableWord(res[p].abv))

\* C5: if a lookup of the call reported an error, CreateAbbreviation
\* returns a non-nil error, not an abbreviation.
C5_LookupErrorAborts ==
    \A p \in Procs : (Returned(p) /\ lookupErr[p]) => res[p].err # "nil"

C3_DistinctUrlsDistinctAbvs ==
    \A u1 \in RequestUrls, u2 \in RequestUrls :
        (u1 # u2 /\ BoundAbv(d, u1) # <<>> /\ BoundAbv(d, u2) # <<>>)
            => /\ BoundAbv(d, u1) # BoundAbv(d, u2)
               /\ BoundUrl(d, BoundAbv(d, u1)) = u1

\* C4: a create request for the URL that the create request just before it
\* answered is answered 200 with the same abbreviation by the pre-check
\* alone: CreateAbbreviation and Save are not called, the store stays.
C4_SecondCreateShortCircuits ==
    [][\A u \in Urls :
         (AddRequest(Tester, u, FALSE) /\ resp.op = "add" /\ resp.code \in {200, 201}
            /\ resp.url = u)
           => (resp' = Response("add", 200, u, resp.abv)
                 /\ pc'[Tester] = "idle" /\ d' = d)]_vars

\* C7: keySize never decreases, whatever the interleaving of the
\* CreateAbbreviation calls.
C7_KeySizeNeverDecreases == [][keySize' >= keySize]_vars

(***************************************************************************)
(* Claims about the store under sequential requests (SpecSeq).             *)
(***************************************************************************)
\* the (abv, url) pairs either index of the store resolves
Bindings(db) ==
    {<<a, db.heap[db.abvNdxMap[a]].Url>> : a \in DOMAIN db.abvNdxMap}
        \cup {<<db.heap[db.urlNdxMap[u]].Abbreviation, u>> : u \in DOMAIN db.urlNdxMap}

\* C11: under create, resolve and delete requests served one at a time the
\* store is a bijection: no abbreviation is bound to two URLs and no URL
\* is bound to two abbreviations.
C11_StoreIsBijection ==
    \A b1 \in Bindings(d), b2 \in Bindings(d) : (b1[1] = b2[1]) <=> (b1[2] = b2[2])

(***************************************************************************)
(* Claims about concurrent create requests for one URL (Spec).             *)
(***************************************************************************)
\* C12: once concurrent create requests have all been answered, the store
\* holds exactly one abbreviation for each URL created: the request whose
\* Save came second converged on the abbreviation saved first.
C12_OneAbbreviationPerUrl ==
    (\A p \in Procs : pc[p] = "idle")
        => \A b1 \in Bindings(d), b2 \in Bindings(d) : (b1[2] = b2[2]) => (b1[1] = b2[1])

(***************************************************************************)
(* Claims about the statistics and the deletes of the backend (SpecDao).   *)
(***************************************************************************)
Exists(db, a) == Lookup(db.abvNdxMap, a) # Nil

Hits(db, a) == GetStats(db, a).stats.Hits

\* C13: while an abbreviation's record exists (it is in the store before
\* and after a call), its hits is at least 0 and does not decrease.
C13_HitsNeverDecrease ==
    [][\A a \in DaoAbvs :
         (Exists(d, a) /\ Exists(d', a)) => (Hits(d, a) >= 0 /\ Hits(d', a) >= Hits(d, a))]_vars

\* C15: after Save(abv, url), DeleteAbv(abv) or DeleteUrl(url) removes both
\* directions: GetUrl(abv) and GetAbv(url) answer empty and GetStats(abv)
\* the empty record.
C15_DeleteRemovesBothDirections ==
    [][\A a \in DaoAbvs, u \in Urls :
         (/\ ret.op = "Save" /\ ret.abv = a /\ ret.url = u /\ ret.err = "nil"
          /\ (DeleteAbvCall(a) \/ DeleteUrlCall(u)))
           => /\ ret'.err = "nil"
              /\ GetUrl(d', a, now).url = ""
              /\ GetAbv(d', u).abv = <<>>
              /\ GetStats(d', a).stats = EmptyShortUrl]_vars

\* a delete that found its record and removed the last one of the store
C15_Witness ==
    ret.op \in {"DeleteAbv", "DeleteUrl"} /\ ret.err = "nil" /\ d = CreateMemoryDB

\* C16: DeleteAbv of an abbreviation that is not stored and DeleteUrl of a
\* URL that is not stored return nil and leave the store as it was.
C16_DeleteMissingIsNoop ==
    [][/\ \A a \in DaoAbvs :
            (DeleteAbvCall(a) /\ Lookup(d.abvNdxMap, a) = Nil)
              => (ret'.err = "nil" /\ d' = d)
       /\ \A u \in Urls :
            (DeleteUrlCall(u) /\ Lookup(d.urlNdxMap, u) = Nil)
              => (ret'.err = "nil" /\ d' = d)]_vars

\* C17: GetUrl of an unbound abbreviation, GetAbv of an unbound URL and
\* GetStats of an unknown abbreviation return the empty value and a nil
\* error, and leave the store as it was: no record, no hit.
C17_NotFoundIsEmptyNoError ==
    [][/\ \A a \in DaoAbvs :
            (GetUrlCall(a) /\ ~Exists(d, a))
              => (ret'.outUrl = "" /\ ret'.err = "nil" /\ d' = d)
       /\ \A u \in Urls :
            (GetAbvCall(u) /\ Lookup(d.urlNdxMap, u) = Nil)
              => (ret'.outAbv = <<>> /\ ret'.err = "nil" /\ d' = d)
       /\ \A a \in DaoAbvs :
            (GetStatsCall(a) /\ ~Exists(d, a))
              => (ret'.outStats = EmptyShortUrl /\ ret'.err = "nil" /\ d' = d)]_vars

\* GetStats answered for an abbreviation the store does not hold, while it
\* holds another record
C17_Witness ==
    /\ ret.op = "GetStats" /\ ~Exists(d, ret.abv) /\ ret.outStats = EmptyShortUrl
    /\ d # CreateMemoryDB

\* C18: GetAbv and GetStats leave the whole store unchanged, the hits,
\* lastAccess and dailyHits of every record included.
C18_GetAbvGetStatsReadOnly ==
    [][/\ \A u \in Urls : GetAbvCall(u) => d' = d
       /\ \A a \in DaoAbvs : GetStatsCall(a) => d' = d]_vars

\* GetStats answered for a record that has been resolved before
C18_Witness ==
    ret.op = "GetStats" /\ Exists(d, ret.abv) /\ ret.outStats.Hits > 0

\* no update goroutine is left that addresses the row
Drained(id) == \A update \in BagToSet(detached) : id \notin UpdateTarget(net, update)

\* C14: once the detached updates of a stored record have run, GetStats
\* reports at least as many hits, and at least as many daily hits of today,
\* as there were GetUrl calls that returned the record's URL.
C14_ResolvedCallsAreCounted ==
    \A a \in DaoAbvs :
        LET id == IdOfAbv(net, a)
            stats == SQLiteGetStats(net, a).stats
        IN (id # 0 /\ Drained(id))
              => /\ stats.Hits >= Count(served, id)
                 /\ Count(stats.DailyHits, Date(now)) >= Count(served, id)

\* C19: a resolve request whose lookup fails for another reason than a
\* missing record gets an error from GetUrl and the failure response.
C19_FailedLookupIsAnError ==
    [][\A a \in DaoAbvs :
         getHandlerNet(a, TRUE) => (ret'.err # "nil" /\ resp'.code = 500)]_vars

\* C20: the GetUrl call that finds the record returns its URL and a nil
\* error whatever becomes of the update it starts; an update goroutine with
\* a failing statement changes neither what the caller got nor the response,
\* and it ends: no goroutine is started in its place.
C20_UpdateFailureIsSilent ==
    [][/\ \A a \in DaoAbvs :
            (getHandlerNet(a, FALSE) /\ IdOfAbv(net, a) # 0)
               => /\ ret'.err = "nil"
                  /\ ret'.outUrl = net.rows[IdOfAbv(net, a)].Url
                  /\ resp'.code = 302
       /\ \A update \in BagToSet(detached), o \in UpdateOutcomes(dao) :
            (RunUpdate(update, o) /\ ~(o.hits /\ o.daily))
               => /\ ret' = ret
                  /\ resp' = resp
                  /\ BagCardinality(detached') = BagCardinality(detached) - 1
                  /\ CopiesIn(update, detached') = CopiesIn(update, detached) - 1]_vars

\* a resolved request whose update has run and failed: the hit is lost
C20_Witness ==
    /\ ret.op = "GetUrl" /\ ret.err = "nil" /\ ret.outUrl # ""
    /\ resp.code = 302
    /\ detached = EmptyBag
    /\ \E id \in DOMAIN net.rows :
         /\ net.rows[id].Abbreviation = ret.abv
         /\ Count(served, id) > net.rows[id].Hits

\* C24: every growth of keySize adds one to the value keySize has when the
\* increment is written, so m growths leave keySize m above its start.
C24_GrowthAddsOne ==
    [][\A p \in Procs : (RsGrowWrite(p) \/ CaGrowWrite(p)) => keySize' = keySize + 1]_vars

\* the counters of the records in the store
Analytics(db) ==
    [p \in DOMAIN db.heap |->
        <<db.heap[p].Hits, db.heap[p].LastAccess, db.heap[p].DailyHits>>]

\* C25: no step of a CreateAbbreviation call changes the hits, the last
\* access or the daily hits of a record in the backend.
C25_AllocationKeepsAnalytics == [][Analytics(d') = Analytics(d)]_vars

\* C26: a record saved as (abv, url) stays resolvable in both directions
\* over every call that is not DeleteAbv(abv) or DeleteUrl(url).
C26_RecordStaysUntilDeleted ==
    [][\A a \in DaoAbvs, u \in Urls :
         (HasRecord(d, a, u) /\ ~DeleteAbvCall(a) /\ ~DeleteUrlCall(u))
            => HasRecord(d', a, u)]_vars

\* C27: when Save(abv, url) returns nil, GetUrl(abv) called next returns url.
C27_SavedPairResolves ==
    [][\A a \in DaoAbvs, u \in Urls :
         (NetSaveCall(a, u) /\ ret'.err = "nil")
            => NetGetUrl(dao, net', a, FALSE).url = u]_vars

\* C29: a record that has not been resolved itself has no hits and no daily
\* hits, whatever updates were pending when it was saved.
C29_UpdatesCreditTheirOwnRecord ==
    \A id \in DOMAIN net.rows :
        Count(served, id) = 0
           => net.rows[id].Hits = 0 /\ net.rows[id].DailyHits = <<>>

\* C21: when the server process has exited after creating its backend, the
\* backend's Cleanup() has been executed.
C21_CleanupBeforeExit ==
    (main.pc = "exited" /\ main.db # "none") => "Cleanup" \in Range(main.ran)

\* C22: for a length n >= 0 RandStrn returns a string of n characters, each
\* one of the 36 characters of chars; for n = 0 the empty string.
C22_LengthAndAlphabet ==
    (ret.op = "RandStrn" /\ ret.length >= 0)
       => /\ Len(ret.out) = ret.length
          /\ \A i \in 1..Len(ret.out) : ret.out[i] \in Range(chars)
          /\ Cardinality(Range(chars)) = 36
          /\ ret.length = 0 => ret.out = <<>>

C22_Witness ==
    /\ ret.op = "RandStrn" /\ ret.length = MaxLength
    /\ ret.out[1] = "9" /\ ret.out[MaxLength] = "a"

\* C23: NewStatus() gives (Unknown, "initializing"); Ok, Warn, Critical and
\* Unknown set their code and the message they are given, and each of them
\* can be called on every status, whatever its code.
C23_StatusCallsSetCodeAndMessage ==
    [][/\ NewStatusCall => (status'.Code = Unknown /\ status'.Message = "initializing")
       /\ \A m \in Messages :
            /\ OkCall(m) => (status'.Code = OK /\ status'.Message = m)
            /\ WarnCall(m) => (status'.Code = Warning /\ status'.Message = m)
            /\ CriticalCall(m) => (status'.Code = Critical /\ status'.Message = m)
            /\ UnknownCall(m) => (status'.Code = Unknown /\ status'.Message = m)
       /\ status # EmptyStatus =>
            \A m \in Messages :
                /\ ENABLED OkCall(m)
                /\ ENABLED WarnCall(m)
                /\ ENABLED CriticalCall(m)
                /\ ENABLED UnknownCall(m)]_vars

\* a Critical status was served and Ok was called on it
C23_Witness ==
    /\ status.Code = OK /\ status.Message = "m2"
    /\ resp.op = "status" /\ resp.body.Code = Critical /\ resp.body.Message = "m1"

\* C28: in the Redis backend an abbreviation that has no URL (DeleteAbv
\* returned success and no Save of it ran since; the keyspace gives it no
\* URL in any other way) has the empty record as its GetStats result and the
\* empty string as its GetUrl result, whatever updates are still pending.
C28_DeletedStaysEmpty ==
    \A a \in DaoAbvs :
        HGetUrl(redis, a) = "" =>
            /\ RedisGetStats(redis, a).stats = EmptyShortUrl
            /\ RedisGetUrl(redis, a, FALSE).url = ""

\* C30: when two RedisDB.Save calls of the same abbreviation with different
\* URLs have both returned, and nothing but Save calls has run, not both
\* returned nil, the abbreviation is bound to the URL of the call that
\* returned nil, and the other URL has no reverse mapping to the abbreviation.
C30_OneSaveWins ==
    \A p \in Procs, q \in Procs :
        (/\ p # q
         /\ ret.op = "none"
         /\ saving[p].pc = "done" /\ saving[q].pc = "done"
         /\ saving[p].abv = saving[q].abv
         /\ saving[p].url # saving[q].url)
        => /\ ~(saving[p].err = "nil" /\ saving[q].err = "nil")
           /\ saving[p].err = "nil" =>
                /\ HGetUrl(redis, saving[p].abv) = saving[p].url
                /\ Lookup(redis.url, saving[q].url) # saving[p].abv

\* C31: a create request whose GetAbv pre-check fails with a backend error
\* is answered with an error and goes no further: CreateAbbreviation is not
\* entered and the store stays as it is.
C31_FailedPrecheckFailsRequest ==
    [][\A u \in Urls :
         AddRequest(Tester, u, TRUE)
           => (resp'.op = "add" /\ resp'.code = 500 /\ pc'[Tester] = "idle"
                 /\ d' = d)]_vars

\* C32: the filter runs before any storage lookup.  Every dao.GetUrl call of
\* CreateAbbreviation is made with a candidate that passed AcceptableWord,
\* and the turn of randString that draws a candidate hands it to the lookup
\* only when it is acceptable; a rejected candidate leaves the store alone
\* and the call inside randString.
C32_FilterBeforeLookup ==
    [][/\ (LookupStep(Tester, MaxAllocHits) \/ Relookup(Tester, MaxAllocHits))
            => AcceptableWord(abv[Tester])
       /\ RandStringStep(Tester) =>
            /\ d' = d
            /\ pc'[Tester] = "lookup" => AcceptableWord(abv'[Tester])
            /\ pc'[Tester] # "lookup" =>
                 /\ pc'[Tester] \in {"randString", "rsGrowRead"}
                 /\ abv'[Tester] = abv[Tester]]_vars

\* a call that met a rejected candidate, then looked up an acceptable one
\* and returned it
C32_Witness ==
    /\ pc[Tester] = "returned"
    /\ rsTries[Tester] > 0
    /\ res[Tester].err = "nil"
    /\ Len(res[Tester].abv) = 3
    /\ AcceptableWord(res[Tester].abv)

\* C33: CreateAbbreviation returns an error only when a lookup of the call
\* reported an error; on a backend whose lookups never fail it returns nil,
\* however many candidates were rejected or collided.
C33_ErrorOnlyFromLookup ==
    \A p \in Procs :
        /\ res[p].err # "nil" => lookupErr[p]
        /\ dao # "Unreliable" => res[p].err = "nil"

\* a call on MemoryDB that met a collision and a rejected candidate and
\* returned an abbreviation
C33_Witness ==
    /\ dao = "MemoryDB"
    /\ pc[Tester] = "returned"
    /\ res[Tester] = [abv |-> <<"a", "a", "s">>, err |-> "nil"]
    /\ rsTries[Tester] > 0
    /\ \E su \in DOMAIN d.heap : d.heap[su].Hits > 0 /\ d.heap[su].Url # url[Tester]

\* the call is about to grow keySize beyond the largest key size explored
AtMaxKeySize ==
    pc[Tester] \in {"rsGrowWrite", "caGrowWrite"} /\ tmp[Tester] + 1 > MaxKeySize

\* C34: on a backend that never errors, with a fair random source, every
\* CreateAbbreviation call returns (or, in this bounded development, is about
\* to grow keySize beyond MaxKeySize, which exceeds the length of every
\* stored abbreviation).
C34_CallReturns ==
    (pc[Tester] \notin {"idle", "returned", "done"})
        ~> (pc[Tester] \in {"returned", "done"} \/ AtMaxKeySize)

\* a call returned after collisions grew keySize beyond the stored 'a'
C34_Witness ==
    /\ r = {0}
    /\ pc[Tester] = "returned"
    /\ res[Tester] = [abv |-> <<"a", "a">>, err |-> "nil"]
    /\ keySize = 2
    /\ BoundUrl(d, <<"a">>) # ""

\* C35: keySize is at least 1 in every reachable state, whatever the
\* startingkeysize setting is (unset, "0" and "3" here).
C35_KeySizeAtLeastOne == keySize >= 1

\* the record GetUrl(a) counts a hit on, Nil when it returns no URL
Resolves(db, a) ==
    IF GetStats(db, a).stats.Url # "" THEN Lookup(db.abvNdxMap, a) ELSE Nil

\* C36: in the mutex-protected MemoryDB every record's hits equal the sum of
\* its dailyHits, and both count the GetUrl calls that returned the record's
\* URL since it was last saved: a Save leaves its record with hits 0, a
\* GetUrl call that returns the URL of a record adds exactly 1 to it, and
\* no other call changes the hits of a record it leaves in the store.
C36_HitsCountResolutions ==
    [][LET saved == IF ret'.op = "Save" /\ SaveCall(ret'.abv, ret'.url)
                    THEN NewPtr(ret'.abv, ret'.url) ELSE Nil
           hit == IF ret'.op = "GetUrl" /\ ret'.outUrl # "" /\ GetUrlCall(ret'.abv)
                  THEN Resolves(d, ret'.abv) ELSE Nil
       IN \A su \in DOMAIN d'.heap :
            LET new == d'.heap[su]
                old == IF su \in DOMAIN d.heap THEN d.heap[su].Hits ELSE 0
            IN /\ new.Hits = SumOf(new.DailyHits)
               /\ new.Hits = IF su = saved THEN 0
                             ELSE IF su = hit THEN old + 1
                             ELSE old]_vars

\* a record resolved on two days, after it was saved a second time
C36_Witness ==
    /\ dao = "LockedMemoryDB"
    /\ ret.op = "GetUrl" /\ ret.outUrl = "u1"
    /\ \E su \in DOMAIN d.heap :
         /\ d.heap[su].Hits = 2
         /\ d.heap[su].DailyHits = (0 :> 1) @@ (1 :> 1)

\* C37: the ShortUrl GetStats returned is a snapshot.  A GetUrl call made
\* while the caller holds it changes no field of it, and a write of the
\* caller to it leaves the store as it is.
C37_StatsAreASnapshot ==
    [][/\ \A a \in DaoAbvs :
            (ret.op = "GetStats" /\ GetUrlCall(a))
                => StatsHeld(d', ret.outStats) = ret.outStats
       /\ CallerWrites(0) => d' = d]_vars

\* C38: the status the status endpoint serves follows the probe.  A request
\* answered after startup marked the service ready is not answered Unknown;
\* one answered when the last probe found the database down is answered
\* Warning; one answered when the service is ready and the last probe found
\* the database up is answered OK.
C38_ServedStatusFollowsProbe ==
    [][StatusRequest =>
         /\ main.pc = "waiting" => resp'.body.Code # Unknown
         /\ status.Code = Warning => resp'.body.Code = Warning
         /\ (main.pc = "waiting" /\ status.Code = OK) => resp'.body.Code = OK]_vars

====
